---- MODULE Spec2Model ----
(***************************************************************************)
(* Turn pipeline and session lifecycle of the WhatsApp challenge bot.      *)
(*                                                                         *)
(* The store is the PostgresStore (game_users, game_messages,              *)
(* game_winners); every store method is one database transaction and is    *)
(* one atomic step here.  An inbound message is handled by a task that     *)
(* runs its store calls one after the other; tasks of several inbound      *)
(* messages run concurrently (async handlers, up to ten service            *)
(* instances), so their store calls interleave.                            *)
(*                                                                         *)
(* update_state_node is wired to the store through set_redis_store; the    *)
(* model takes the store as set and the WhatsApp client as set.            *)
(*                                                                         *)
(* add_message is a read-modify-write inside its transaction: it selects   *)
(* the row, adds one to attempts in the ORM object and flushes the value.  *)
(* SpecCount takes the select and the commit as two steps, which is how    *)
(* the transactions of two service instances overlap under READ            *)
(* COMMITTED; the other specifications take the transaction as one step.   *)
(*                                                                         *)
(* Two workflows use the nodes: create_hackmerlin_workflow, which          *)
(* GameService compiles, and create_ai_game_workflow.  A turn runs one of  *)
(* them.  Only evaluation_node of the second ever reports a level as won:  *)
(* self_evaluation_node reads the state key guardian_response, which no    *)
(* node writes, and returns before it calls the judge.                     *)
(*                                                                         *)
(* RedisStore, the other implementation of the store, is modelled next to  *)
(* the PostgresStore and given the same calls in SpecBoth.  SpecDelivery   *)
(* is the handler of main.py while the competition is closed, with the     *)
(* table delivery_details of the lucky-draw winners.                       *)
(***************************************************************************)
EXTENDS Integers, Sequences, FiniteSets, TLC

VARIABLES
    users,      \* game_users: phone_number -> row (a partial function)
    msgs,       \* game_messages: phone_number -> rows in insertion order
    winners,    \* game_winners: set of rows
    now,        \* datetime.now(), in whole minutes
    turn,       \* the handler tasks of inbound messages
    sweep,      \* the tasks of the /check-sessions job
    sent,       \* what the step just taken handed to the WhatsApp client
    redis,      \* the keys user:<phone_number> of a RedisStore -> user state
    delivery,   \* delivery_details: phone_number -> row (a partial function)
    hist        \* history kept for the properties; no step of the program reads it

vars == <<users, msgs, winners, now, turn, sweep, sent, redis, delivery, hist>>

(***************************************************************************)
(* Program constants                                                       *)
(***************************************************************************)
MAX_LEVELS == 5
SESSION_TIMEOUT_MINUTES == 3
SESSION_WARNING_MINUTES == 2

(***************************************************************************)
(* Bounds of the model                                                     *)
(***************************************************************************)
MaxTime == 4        \* the clock stops here
MaxTurns == 4       \* inbound messages handled in one behaviour
MaxSweepTime == 6   \* the clock of SpecSweep stops here
MaxSweepTurns == 2  \* inbound messages handled in one behaviour of SpecSweep
MaxGateTurns == 2   \* inbound messages handled in one behaviour of SpecGate
MaxCountTurns == 2  \* inbound messages handled in one behaviour of SpecCount
MaxFaultTurns == 2  \* inbound messages handled in one behaviour of SpecFault
MaxLlmTurns == 2    \* inbound messages handled in one behaviour of SpecLlm
MaxStoreCalls == 5  \* calls of store methods in one behaviour of SpecStore
MaxButtonTurns == 2 \* button clicks handled in one behaviour of SpecButton
MaxStoreTime == 1   \* the clock of SpecStore stops here
MaxBothCalls == 4   \* calls of store methods in one behaviour of SpecBoth
MaxBothTime == 3    \* the clock of SpecBoth stops here
MaxDeliveryTurns == 4 \* inbound messages handled in one behaviour of SpecDelivery

Ids == {"u1", "u2"}
Turns == {"t1", "t2"}
Sweeps == {"s1", "s2"}

(***************************************************************************)
(* Texts are sequences of characters; canned texts are one token.          *)
(***************************************************************************)
Lower(c) ==
    CASE c = "F" -> "f"
      [] c = "W" -> "w"
      [] c = "H" -> "h"
      [] OTHER -> c

LowerSeq(s) == [i \in 1..Len(s) |-> Lower(s[i])]

\* Python's  word in message : word occurs as a contiguous substring
Contains(word, s) ==
    \E i \in 0..(Len(s) - Len(word)) :
        \A j \in 1..Len(word) : s[i + j] = word[j]

StartsWith(s, prefix) ==
    /\ Len(s) >= Len(prefix)
    /\ \A j \in 1..Len(prefix) : s[j] = prefix[j]

W_free == <<"f", "r", "e", "e">>
W_complimentary == <<"c", "o", "m", "p", "l", "i", "m", "e", "n", "t", "a", "r", "y">>
W_gift == <<"g", "i", "f", "t">>
W_r0 == <<"r", "0">>
W_giveaway == <<"g", "i", "v", "e", "a", "w", "a", "y">>
W_prize == <<"p", "r", "i", "z", "e">>
W_win == <<"w", "i", "n">>
W_reward == <<"r", "e", "w", "a", "r", "d">>

get_input_filter_words(level) ==
    IF level < 4 THEN {}
    ELSE IF level = 4 THEN {W_free, W_complimentary, W_gift}
    ELSE {W_free, W_complimentary, W_gift, W_r0, W_giveaway, W_prize, W_win, W_reward}

\* a variant that compares the message as typed, capitals kept; C16 tells it
\* apart
check_input_filter_cased(message, level) ==
    LET banned_words == get_input_filter_words(level)
    IN  IF banned_words = {} THEN FALSE
        ELSE \E word \in banned_words : Contains(word, message)

check_input_filter(message, level) ==
    LET banned_words == get_input_filter_words(level)
    IN  IF banned_words = {} THEN FALSE
        ELSE \E word \in banned_words : Contains(word, LowerSeq(message))

LEVEL_CONFIGS_min_length(level) ==
    CASE level = 1 -> 5
      [] level = 2 -> 8
      [] level = 3 -> 10
      [] level = 4 -> 12
      [] level = 5 -> 15

ButtonPrefix == <<"[", "B", "u", "t", "t", "o", "n", ":", " ">>
ButtonContent(message_text) == ButtonPrefix \o message_text \o <<"]">>

T_hi == <<"h", "i">>
T_Free == <<"F", "r", "e", "e">>
T_twins == <<"t", "w", "i", "n", "s">>
T_blank == <<" ">>
T_empty == <<>>

(***************************************************************************)
(* The store (PostgresStore).  Each operator gives the state of a table    *)
(* after the method committed at time t.                                   *)
(***************************************************************************)
Exists(us, p) == p \in DOMAIN us

NewUserRow(t) ==
    [level |-> 1, attempts |-> 0, created_at |-> t, last_active |-> t, won |-> FALSE,
     session_started_at |-> t, session_warned |-> FALSE, session_expired |-> FALSE]

\* create_new_user: INSERT; the primary key makes it raise when the row exists
CreateRaises(us, p) == Exists(us, p)

create_new_user(us, p, t) ==
    IF CreateRaises(us, p) THEN us
    ELSE [x \in DOMAIN us \cup {p} |-> IF x = p THEN NewUserRow(t) ELSE us[x]]

\* a game_messages row; the columns timestamp and level are written and never
\* read back by the handlers (rows are read in insertion order)
MessageRow(role, content) == [role |-> role, content |-> content]

\* add_message: creates the user when missing, appends, touches last_active,
\* counts the attempt and clears the warning for a user message
\* a variant that leaves the warning flag as it is; C25 tells it apart
add_message_users_still_warned(us, p, role, t) ==
    LET us1 == create_new_user(us, p, t)
    IN  [us1 EXCEPT ![p] =
            [@ EXCEPT !.last_active = t,
                      !.attempts = IF role = "user" THEN @ + 1 ELSE @]]

\* a variant that records the message without counting the attempt; C23
\* tells it apart
add_message_users_uncounted(us, p, role, t) ==
    LET us1 == create_new_user(us, p, t)
    IN  [us1 EXCEPT ![p] = [@ EXCEPT !.last_active = t]]

add_message_users(us, p, role, t) ==
    LET us1 == create_new_user(us, p, t)
    IN  [us1 EXCEPT ![p] =
            [@ EXCEPT !.last_active = t,
                      !.attempts = IF role = "user" THEN @ + 1 ELSE @,
                      !.session_warned = IF role = "user" THEN FALSE ELSE @]]

\* add_message, the commit of a transaction that selected the row when its
\* attempts were user_attempts: the flush writes the changed columns
add_message_flush(us, p, role, user_attempts, t) ==
    [us EXCEPT ![p] =
        [@ EXCEPT !.last_active = t,
                  !.attempts = IF role = "user" THEN user_attempts + 1 ELSE @,
                  !.session_warned = IF role = "user" THEN FALSE ELSE @]]

add_message_msgs(ms, p, role, content) ==
    [ms EXCEPT ![p] = Append(@, MessageRow(role, content))]

update_level(us, p, new_level, t) ==
    IF ~Exists(us, p) THEN us
    ELSE [us EXCEPT ![p] = [@ EXCEPT !.level = new_level, !.last_active = t]]

\* a variant that writes the winner row and leaves the flag; C28 tells it apart
mark_as_won_users_unflagged(us, p, t) ==
    IF ~Exists(us, p) THEN us
    ELSE [us EXCEPT ![p] = [@ EXCEPT !.last_active = t]]

mark_as_won_users(us, p, t) ==
    IF ~Exists(us, p) THEN us
    ELSE [us EXCEPT ![p] = [@ EXCEPT !.won = TRUE, !.last_active = t]]

WinnerRow(us, ws, p, t) ==
    [phone_number |-> p, completed_at |-> t, total_attempts |-> us[p].attempts,
     time_taken |-> t - us[p].created_at, rank |-> Cardinality(ws) + 1,
     preferred_phone |-> "None", draw_eligible |-> TRUE]

\* a variant that records a winner at every call; C8 tells it apart
mark_as_won_winners_again(us, ws, p, t) ==
    IF ~Exists(us, p) THEN ws
    ELSE ws \cup {WinnerRow(us, ws, p, t)}

mark_as_won_winners(us, ws, p, t) ==
    IF ~Exists(us, p) THEN ws
    ELSE IF \E w \in ws : w.phone_number = p THEN ws
    ELSE ws \cup {WinnerRow(us, ws, p, t)}

\* a variant that starts the game afresh; C10 tells it apart
start_new_session_afresh(us, p, t) ==
    IF ~Exists(us, p) THEN us
    ELSE [us EXCEPT ![p] = [@ EXCEPT !.session_started_at = t, !.last_active = t,
                                     !.session_warned = FALSE, !.session_expired = FALSE,
                                     !.level = 1, !.attempts = 0]]

start_new_session(us, p, t) ==
    IF ~Exists(us, p) THEN us
    ELSE [us EXCEPT ![p] = [@ EXCEPT !.session_started_at = t, !.last_active = t,
                                     !.session_warned = FALSE, !.session_expired = FALSE]]

\* mark_session_warned: the UPDATE does not set last_active, so the column's
\* onupdate=datetime.now applies whenever a row is actually updated
mark_session_warned(us, p, t) ==
    IF ~Exists(us, p) THEN us
    ELSE IF us[p].session_warned THEN us
    ELSE [us EXCEPT ![p] = [@ EXCEPT !.session_warned = TRUE, !.last_active = t]]

\* a variant that forgets the warned flag; C12 tells it apart
get_inactive_users_for_warning_again(us, minutes, t) ==
    {p \in DOMAIN us :
        /\ us[p].last_active < t - minutes
        /\ us[p].last_active >= t - SESSION_TIMEOUT_MINUTES
        /\ us[p].won = FALSE}

get_inactive_users_for_warning(us, minutes, t) ==
    {p \in DOMAIN us :
        /\ us[p].last_active < t - minutes
        /\ us[p].last_active >= t - SESSION_TIMEOUT_MINUTES
        /\ us[p].session_warned = FALSE
        /\ us[p].won = FALSE}

reset_user_progress_users(us, p) == [x \in DOMAIN us \ {p} |-> us[x]]
reset_user_progress_msgs(ms, p) == [ms EXCEPT ![p] = <<>>]
\* a variant that keeps the winner rows; C26 tells it apart
reset_user_progress_winners_kept(ws, p) == ws

reset_user_progress_winners(ws, p) == {w \in ws : w.phone_number # p}

\* delivery_details.phone_number refers to game_winners with ON DELETE CASCADE
reset_user_progress_delivery(dl, p) == [x \in DOMAIN dl \ {p} |-> dl[x]]

(***************************************************************************)
(* The table delivery_details of the lucky-draw winners                    *)
(***************************************************************************)
\* is_lucky_draw_winner: a list of phone numbers written into the method
LuckyWinners == {"u1"}
is_lucky_draw_winner(p) == p \in LuckyWinners

\* the states of a row, in the order of the collection
DeliveryStates == <<"pending", "awaiting_name", "awaiting_address", "completed">>

DeliveryRow == [winner_name |-> <<>>, delivery_address |-> <<>>, state |-> "pending"]

\* create_delivery_record: an existing row is left alone; the foreign key
\* refuses the row of a phone number that has no game_winners row
create_delivery_record(dl, ws, p) ==
    IF Exists(dl, p) THEN dl
    ELSE IF ~\E w \in ws : w.phone_number = p THEN dl
    ELSE [x \in DOMAIN dl \cup {p} |-> IF x = p THEN DeliveryRow ELSE dl[x]]

get_delivery_state(dl, p) == IF Exists(dl, p) THEN dl[p].state ELSE "None"

\* process_message, the click on provide_delivery_details: the row is read
\* again and its state set
start_delivery_collection(dl, p) ==
    IF ~Exists(dl, p) THEN dl
    ELSE [dl EXCEPT ![p] = [@ EXCEPT !.state = "awaiting_name"]]

update_delivery_name(dl, p, name) ==
    IF ~Exists(dl, p) THEN dl
    ELSE [dl EXCEPT ![p] = [@ EXCEPT !.winner_name = name, !.state = "awaiting_address"]]

update_delivery_address(dl, p, address) ==
    IF ~Exists(dl, p) THEN dl
    ELSE [dl EXCEPT ![p] = [@ EXCEPT !.delivery_address = address, !.state = "completed"]]

set_phone_preference(ws, p, choice) ==
    {IF w.phone_number = p THEN [w EXCEPT !.preferred_phone = choice] ELSE w : w \in ws}

(***************************************************************************)
(* RedisStore: one JSON document per key user:<phone_number>, the messages *)
(* inside it.  Every method reads the document, changes it and saves it.   *)
(***************************************************************************)
RedisUserState(t) ==
    [level |-> 1, messages |-> <<>>, attempts |-> 0, created_at |-> t, last_active |-> t,
     won |-> FALSE, session_started_at |-> t, session_warned |-> FALSE,
     session_expired |-> FALSE]

\* RedisStore.create_new_user: builds the state and saves it over the key
redis_create_new_user(rs, p, t) ==
    [x \in DOMAIN rs \cup {p} |-> IF x = p THEN RedisUserState(t) ELSE rs[x]]

\* RedisStore.add_message
redis_add_message(rs, p, role, content, t) ==
    LET rs1 == IF Exists(rs, p) THEN rs ELSE redis_create_new_user(rs, p, t)
    IN  [rs1 EXCEPT ![p] =
            [@ EXCEPT !.messages = Append(@, MessageRow(role, content)),
                      !.last_active = t,
                      !.attempts = IF role = "user" THEN @ + 1 ELSE @,
                      !.session_warned = IF role = "user" THEN FALSE ELSE @]]

\* RedisStore.update_level
redis_update_level(rs, p, new_level, t) ==
    IF ~Exists(rs, p) THEN rs
    ELSE [rs EXCEPT ![p] = [@ EXCEPT !.level = new_level, !.last_active = t]]

\* RedisStore.mark_as_won
redis_mark_as_won(rs, p, t) ==
    IF ~Exists(rs, p) THEN rs
    ELSE [rs EXCEPT ![p] = [@ EXCEPT !.won = TRUE, !.last_active = t]]

\* RedisStore.start_new_session
redis_start_new_session(rs, p, t) ==
    IF ~Exists(rs, p) THEN rs
    ELSE [rs EXCEPT ![p] = [@ EXCEPT !.session_started_at = t, !.last_active = t,
                                     !.session_warned = FALSE, !.session_expired = FALSE]]

\* RedisStore.mark_session_warned
redis_mark_session_warned(rs, p) ==
    IF ~Exists(rs, p) THEN rs
    ELSE [rs EXCEPT ![p] = [@ EXCEPT !.session_warned = TRUE]]

\* RedisStore.get_inactive_users_for_warning
redis_get_inactive_users_for_warning(rs, minutes, t) ==
    {p \in DOMAIN rs :
        /\ ~rs[p].won
        /\ ~rs[p].session_warned
        /\ ~rs[p].session_expired
        /\ minutes <= t - rs[p].last_active
        /\ t - rs[p].last_active < SESSION_TIMEOUT_MINUTES}

\* a variant that lets the session live through the minute of the timeout;
\* C11 tells it apart
_is_session_expired_after(user_state, t) ==
    t - user_state.last_active > SESSION_TIMEOUT_MINUTES

\* GameService._is_session_expired
_is_session_expired(user_state, t) ==
    t - user_state.last_active >= SESSION_TIMEOUT_MINUTES

(***************************************************************************)
(* Handler tasks                                                           *)
(***************************************************************************)
NoText == <<>>

IdleTurn ==
    [pc |-> "idle", id |-> "-", kind |-> "-", text |-> NoText, button |-> "-",
     cls |-> "-", wf |-> "-", ctx |-> 0,
     won_level |-> FALSE, passed |-> FALSE, sales_bot_response |-> NoText,
     guardian_response |-> NoText, structured_response |-> NoText,
     workflow_step |-> "-", current_level |-> 0, won_game |-> FALSE, llm |-> 0,
     reasoning |-> "-", received_won |-> FALSE, user_attempts |-> 0,
     store_failed |-> FALSE, delivery_state |-> "-"]

IdleSweep == [pc |-> "idle", list |-> {}, cur |-> "-"]

\* hist is a history variable: the inbound messages handled so far and how
\* many the behaviour takes, the turns that went through the pipeline to its
\* end and those of them that won their level, and the level and attempts
\* the identity started with
Within == hist.started < hist.limit

Started == [hist EXCEPT !.started = @ + 1]

\* hist also keeps, for every identity, whether it was marked as warned and
\* how many warnings ("none", "one", "more") were sent to it since its last
\* user-role message was recorded
Recorded(h, p) == [h EXCEPT !.warned = @ \ {p}, !.warnings[p] = "none"]

Warned(h, p) == [h EXCEPT !.warnings[p] = IF @ = "none" THEN "one" ELSE "more"]

\* the handler returns: its task is over
Return(t) == [turn EXCEPT ![t] = IdleTurn]

Msg(p, text) == [to |-> p, text |-> text]

(***************************************************************************)
(* GameService.process_user_message: read the session and classify         *)
(***************************************************************************)
Classify(us, p, t) ==
    IF ~Exists(us, p) THEN "NEW"
    ELSE IF _is_session_expired(us[p], t) THEN "EXPIRED"
    ELSE "ACTIVE"

process_user_message(t, p, text) ==
    /\ turn[t].pc = "idle"
    /\ Within
    /\ hist' = Started
    /\ LET cls == Classify(users, p, now)
       IN  turn' = [turn EXCEPT ![t] =
              [IdleTurn EXCEPT !.id = p, !.kind = "text", !.text = text, !.cls = cls,
                   !.received_won = Exists(users, p) /\ users[p].won,
                   !.pc = CASE cls = "NEW" -> "new_create"
                            [] cls = "EXPIRED" -> "exp_start"
                            [] OTHER -> "ai_load"]]
    /\ sent' = <<>>
    /\ UNCHANGED <<users, msgs, winners, now, sweep, redis, delivery>>

\* _handle_new_user, create_new_user; a raise ends in the handler's except,
\* which sends the apology
HandleNewUserCreate(t) ==
    /\ turn[t].pc = "new_create"
    /\ LET p == turn[t].id
       IN  IF CreateRaises(users, p)
           THEN /\ turn' = Return(t)
                /\ sent' = <<Msg(p, "sorry")>>
                /\ UNCHANGED users
           ELSE /\ users' = create_new_user(users, p, now)
                /\ turn' = [turn EXCEPT ![t].pc = "new_welcome"]
                /\ sent' = <<>>
    /\ UNCHANGED <<msgs, winners, now, sweep, hist, redis, delivery>>

\* _handle_new_user, add_message(assistant) and send_interactive_buttons
HandleNewUserWelcome(t) ==
    /\ turn[t].pc = "new_welcome"
    /\ LET p == turn[t].id
       IN  /\ users' = add_message_users(users, p, "assistant", now)
           /\ msgs' = add_message_msgs(msgs, p, "assistant", <<"welcome">>)
           /\ sent' = <<Msg(p, "welcome")>>
    /\ turn' = Return(t)
    /\ UNCHANGED <<winners, now, sweep, hist, redis, delivery>>

\* _handle_session_expired, one store call per step
HandleSessionExpiredStart(t) ==
    /\ turn[t].pc = "exp_start"
    /\ users' = start_new_session(users, turn[t].id, now)
    /\ turn' = [turn EXCEPT ![t].pc = "exp_user"]
    /\ sent' = <<>>
    /\ UNCHANGED <<msgs, winners, now, sweep, hist, redis, delivery>>

HandleSessionExpiredUser(t) ==
    /\ turn[t].pc = "exp_user"
    /\ LET p == turn[t].id
       IN  /\ users' = add_message_users(users, p, "user", now)
           /\ msgs' = add_message_msgs(msgs, p, "user", <<"Session expired - user returned">>)
    /\ turn' = [turn EXCEPT ![t].pc = "exp_asst"]
    /\ sent' = <<>>
    /\ hist' = Recorded(hist, turn[t].id)
    /\ UNCHANGED <<winners, now, sweep, redis, delivery>>

\* a variant that goes on to play the text that resumed the session; C37
\* tells it apart
HandleSessionExpiredReply_and_play(t) ==
    /\ turn[t].pc = "exp_asst"
    /\ LET p == turn[t].id
       IN  /\ users' = add_message_users(users, p, "assistant", now)
           /\ msgs' = add_message_msgs(msgs, p, "assistant", <<"welcome_back">>)
           /\ sent' = <<Msg(p, "welcome_back")>>
    /\ turn' = [turn EXCEPT ![t].pc = "ai_load"]
    /\ UNCHANGED <<winners, now, sweep, hist, redis, delivery>>

HandleSessionExpiredReply(t) ==
    /\ turn[t].pc = "exp_asst"
    /\ LET p == turn[t].id
       IN  /\ users' = add_message_users(users, p, "assistant", now)
           /\ msgs' = add_message_msgs(msgs, p, "assistant", <<"welcome_back">>)
           /\ sent' = <<Msg(p, "welcome_back")>>
    /\ turn' = Return(t)
    /\ UNCHANGED <<winners, now, sweep, hist, redis, delivery>>

(***************************************************************************)
(* The pipeline of an ACTIVE turn.  GameService._process_ai_game compiles  *)
(* create_hackmerlin_workflow (sales_conversation, self_evaluation,        *)
(* update_state, whatsapp_sender); create_ai_game_workflow composes        *)
(* evaluate_message, generate_response and the same update_state and       *)
(* whatsapp_sender.  wf names the workflow a turn runs.                    *)
(***************************************************************************)
Workflows == {"hackmerlin", "ai_game"}

\* load_game_context: read the session (create it when missing), take its level
LoadLevel(us, p) ==
    LET level == IF Exists(us, p) THEN us[p].level ELSE 1
    IN  IF level \in 1..5 THEN level ELSE 1

load_game_context(t, wf) ==
    /\ turn[t].pc = "ai_load"
    /\ LET p == turn[t].id
       IN  /\ users' = create_new_user(users, p, now)
           /\ turn' = [turn EXCEPT ![t] =
                  [@ EXCEPT !.ctx = LoadLevel(users, p), !.wf = wf,
                            !.pc = IF wf = "hackmerlin" THEN "sales" ELSE "evaluate"]]
    /\ sent' = <<>>
    /\ UNCHANGED <<msgs, winners, now, sweep, hist, redis, delivery>>

\* sales_conversation_node: the input filter, then one call of the sales model
sales_conversation_node(t, gen) ==
    /\ turn[t].pc = "sales"
    /\ turn' = [turn EXCEPT ![t] =
          IF check_input_filter(turn[t].text, turn[t].ctx)
          THEN [@ EXCEPT !.workflow_step = "input_blocked",
                         !.structured_response = <<"input_blocked">>,
                         !.won_level = FALSE, !.pc = "self_eval"]
          ELSE IF gen = "raise"
          THEN [@ EXCEPT !.workflow_step = "conversation_error", !.llm = @ + 1,
                         !.structured_response = <<"trouble">>,
                         !.won_level = FALSE, !.pc = "self_eval"]
          ELSE [@ EXCEPT !.workflow_step = "sales_conversation_complete", !.llm = @ + 1,
                         !.sales_bot_response = <<"kimi">>,
                         !.structured_response = <<"kimi">>, !.pc = "self_eval"]]
    /\ sent' = <<>>
    /\ UNCHANGED <<users, msgs, winners, now, sweep, hist, redis, delivery>>

\* the judge's verdict as a node takes it from the parsed answer
JudgeSays(judge) == judge = "yes"

\* self_evaluation_node: reads guardian_response, a key no node writes
self_evaluation_node(t, judge) ==
    /\ turn[t].pc = "self_eval"
    /\ turn' = [turn EXCEPT ![t] =
          IF turn[t].guardian_response = NoText
          THEN [@ EXCEPT !.workflow_step = "no_response_to_evaluate",
                         !.won_level = FALSE, !.pc = "upd_add"]
          ELSE IF judge \in {"yes", "no"}
          THEN [@ EXCEPT !.workflow_step = "self_evaluated", !.llm = @ + 1,
                         !.reasoning = "judged",
                         !.won_level = JudgeSays(judge), !.pc = "upd_add"]
          ELSE [@ EXCEPT !.workflow_step = "evaluation_error", !.llm = @ + 1,
                         !.reasoning = "Evaluation error",
                         !.won_level = FALSE, !.pc = "upd_add"]]
    /\ sent' = <<>>
    /\ UNCHANGED <<users, msgs, winners, now, sweep, hist, redis, delivery>>

\* evaluation_node: one call of the evaluator; won_level is its "passed",
\* False when the answer does not parse or the call raises
\* a variant that lets a turn pass when the call of the judge raises; C9 tells
\* it apart
EvaluationWonLevelOpen(judge) ==
    CASE judge \in {"yes", "no"} -> JudgeSays(judge)
      [] judge = "bad_json" -> FALSE
      [] OTHER -> TRUE

EvaluationWonLevel(judge) ==
    CASE judge \in {"yes", "no"} -> JudgeSays(judge)
      [] judge = "bad_json" -> FALSE
      [] OTHER -> FALSE

EvaluationReasoning(judge) ==
    CASE judge \in {"yes", "no"} -> "judged"
      [] judge = "bad_json" -> "Evaluation parsing failed"
      [] OTHER -> "Evaluation error occurred"

EvaluationStep(judge) ==
    CASE judge \in {"yes", "no"} -> "evaluated"
      [] judge = "bad_json" -> "evaluation_parse_error"
      [] OTHER -> "evaluation_error"

evaluation_node(t, judge) ==
    /\ turn[t].pc = "evaluate"
    /\ turn' = [turn EXCEPT ![t] =
          [@ EXCEPT !.workflow_step = EvaluationStep(judge), !.llm = @ + 1,
                    !.passed = EvaluationWonLevel(judge),
                    !.reasoning = EvaluationReasoning(judge),
                    !.won_level = EvaluationWonLevel(judge), !.pc = "respond"]]
    /\ sent' = <<>>
    /\ UNCHANGED <<users, msgs, winners, now, sweep, hist, redis, delivery>>

\* response_node: the win message, or one call of the responder with fallbacks
response_node(t, gen) ==
    /\ turn[t].pc = "respond"
    /\ turn' = [turn EXCEPT ![t] =
          IF turn[t].passed /\ turn[t].ctx >= MAX_LEVELS
          THEN [@ EXCEPT !.workflow_step = "game_won_response",
                         !.structured_response = <<"win_message">>,
                         !.won_game = TRUE, !.pc = "upd_add"]
          ELSE IF gen = "ok"
          THEN [@ EXCEPT !.workflow_step = "response_generated", !.llm = @ + 1,
                         !.structured_response = <<"kimi">>, !.pc = "upd_add"]
          ELSE [@ EXCEPT !.workflow_step = IF gen = "bad_json"
                                             THEN "response_parse_fallback"
                                             ELSE "response_error_fallback",
                         !.llm = @ + 1,
                         !.structured_response = IF turn[t].passed THEN <<"well_done">>
                                                 ELSE <<"keep_trying">>,
                         !.pc = "upd_add"]]
    /\ sent' = <<>>
    /\ UNCHANGED <<users, msgs, winners, now, sweep, hist, redis, delivery>>

\* update_state_node, first store call: add_message(user); a turn that did
\* not win the level is finished with the store here
UpdateStateRecord(t) ==
    /\ turn[t].pc = "upd_add"
    /\ LET p == turn[t].id
       IN  /\ users' = add_message_users(users, p, "user", now)
           /\ msgs' = add_message_msgs(msgs, p, "user", turn[t].text)
    /\ turn' = [turn EXCEPT ![t] =
          IF turn[t].won_level
          THEN [@ EXCEPT !.pc = "upd_write"]
          ELSE [@ EXCEPT !.workflow_step = "state_updated", !.current_level = turn[t].ctx,
                         !.won_game = FALSE, !.pc = "send"]]
    /\ sent' = <<>>
    /\ hist' = Recorded(hist, turn[t].id)
    /\ UNCHANGED <<winners, now, sweep, redis, delivery>>

\* update_state_node, add_message(user) with its transaction in two steps:
\* the select of the row (the row is created first when it is missing) ...
AddMessageQuery(t) ==
    /\ turn[t].pc = "upd_add"
    /\ LET p == turn[t].id
           us1 == create_new_user(users, p, now)
       IN  /\ users' = us1
           /\ turn' = [turn EXCEPT ![t] =
                  [@ EXCEPT !.user_attempts = us1[p].attempts, !.pc = "upd_commit"]]
    /\ sent' = <<>>
    /\ UNCHANGED <<msgs, winners, now, sweep, hist, redis, delivery>>

\* ... and the insert of the message with the flush of the row and the
\* commit; with the row gone the flush fails and the transaction rolls back
AddMessageCommit(t) ==
    /\ turn[t].pc = "upd_commit"
    /\ LET p == turn[t].id
       IN  IF Exists(users, p)
           THEN /\ users' = add_message_flush(users, p, "user", turn[t].user_attempts, now)
                /\ msgs' = add_message_msgs(msgs, p, "user", turn[t].text)
                /\ hist' = Recorded(hist, p)
           ELSE UNCHANGED <<users, msgs, hist>>
    /\ turn' = [turn EXCEPT ![t] =
          IF turn[t].won_level
          THEN [@ EXCEPT !.pc = "upd_write"]
          ELSE [@ EXCEPT !.workflow_step = "state_updated", !.current_level = turn[t].ctx,
                         !.won_game = FALSE, !.pc = "send"]]
    /\ sent' = <<>>
    /\ UNCHANGED <<winners, now, sweep, redis, delivery>>

\* update_state_node, second store call of a turn that won the level:
\* mark_as_won past the last level, update_level and the introduction of
\* the next level otherwise
\* a variant that ends the game one level early; C4 tells it apart
WonWholeGameEarly(new_level) == new_level >= MAX_LEVELS

WonWholeGame(new_level) == new_level > MAX_LEVELS

UpdateStateApply(t) ==
    /\ turn[t].pc = "upd_write"
    /\ LET p == turn[t].id
           new_level == turn[t].ctx + 1
       IN  IF WonWholeGame(new_level)
           THEN /\ users' = mark_as_won_users(users, p, now)
                /\ winners' = mark_as_won_winners(users, winners, p, now)
                /\ turn' = [turn EXCEPT ![t] =
                       [@ EXCEPT !.workflow_step = "game_won",
                                 !.current_level = MAX_LEVELS, !.won_game = TRUE,
                                 !.pc = "send"]]
                /\ sent' = <<>>
           ELSE /\ users' = update_level(users, p, new_level, now)
                /\ UNCHANGED winners
                /\ turn' = [turn EXCEPT ![t] =
                       [@ EXCEPT !.workflow_step = "level_advanced",
                                 !.current_level = new_level, !.won_game = FALSE,
                                 !.pc = "send"]]
                /\ sent' = <<Msg(p, "level_intro")>>
    /\ UNCHANGED <<msgs, now, sweep, hist, redis, delivery>>

\* whatsapp_sender_node: sends the text of structured_response
whatsapp_sender_node(t) ==
    /\ turn[t].pc = "send"
    /\ sent' = <<Msg(turn[t].id, turn[t].structured_response[1])>>
    /\ turn' = Return(t)
    /\ hist' = [hist EXCEPT !.finished = @ + 1,
                            !.passes = IF turn[t].won_level THEN @ + 1 ELSE @]
    /\ UNCHANGED <<users, msgs, winners, now, sweep, redis, delivery>>

(***************************************************************************)
(* The store methods as operations of their own                            *)
(***************************************************************************)
StoreAddMessage(p, role, content) ==
    /\ Within
    /\ users' = add_message_users(users, p, role, now)
    /\ msgs' = add_message_msgs(msgs, p, role, content)
    /\ hist' = IF role = "user" THEN Recorded(Started, p) ELSE Started
    /\ sent' = <<>>
    /\ UNCHANGED <<winners, now, turn, sweep, redis, delivery>>

StoreMarkAsWon(p) ==
    /\ Within
    /\ users' = mark_as_won_users(users, p, now)
    /\ winners' = mark_as_won_winners(users, winners, p, now)
    /\ hist' = Started
    /\ sent' = <<>>
    /\ UNCHANGED <<msgs, now, turn, sweep, redis, delivery>>

StoreResetUserProgress(p) ==
    /\ Within
    /\ users' = reset_user_progress_users(users, p)
    /\ msgs' = reset_user_progress_msgs(msgs, p)
    /\ winners' = reset_user_progress_winners(winners, p)
    /\ delivery' = reset_user_progress_delivery(delivery, p)
    /\ hist' = Started
    /\ sent' = <<>>
    /\ UNCHANGED <<now, turn, sweep, redis>>

(***************************************************************************)
(* One method called on a PostgresStore and on a RedisStore that have had  *)
(* the same calls so far                                                   *)
(***************************************************************************)
BothCreateNewUser(p) ==
    /\ Within
    /\ users' = create_new_user(users, p, now)
    /\ redis' = redis_create_new_user(redis, p, now)
    /\ hist' = Started
    /\ sent' = <<>>
    /\ UNCHANGED <<msgs, winners, now, turn, sweep, delivery>>

BothAddMessage(p, role, content) ==
    /\ Within
    /\ users' = add_message_users(users, p, role, now)
    /\ msgs' = add_message_msgs(msgs, p, role, content)
    /\ redis' = redis_add_message(redis, p, role, content, now)
    /\ hist' = Started
    /\ sent' = <<>>
    /\ UNCHANGED <<winners, now, turn, sweep, delivery>>

BothUpdateLevel(p, new_level) ==
    /\ Within
    /\ users' = update_level(users, p, new_level, now)
    /\ redis' = redis_update_level(redis, p, new_level, now)
    /\ hist' = Started
    /\ sent' = <<>>
    /\ UNCHANGED <<msgs, winners, now, turn, sweep, delivery>>

BothMarkAsWon(p) ==
    /\ Within
    /\ users' = mark_as_won_users(users, p, now)
    /\ winners' = mark_as_won_winners(users, winners, p, now)
    /\ redis' = redis_mark_as_won(redis, p, now)
    /\ hist' = Started
    /\ sent' = <<>>
    /\ UNCHANGED <<msgs, now, turn, sweep, delivery>>

BothStartNewSession(p) ==
    /\ Within
    /\ users' = start_new_session(users, p, now)
    /\ redis' = redis_start_new_session(redis, p, now)
    /\ hist' = Started
    /\ sent' = <<>>
    /\ UNCHANGED <<msgs, winners, now, turn, sweep, delivery>>

BothMarkSessionWarned(p) ==
    /\ Within
    /\ users' = mark_session_warned(users, p, now)
    /\ redis' = redis_mark_session_warned(redis, p)
    /\ hist' = Started
    /\ sent' = <<>>
    /\ UNCHANGED <<msgs, winners, now, turn, sweep, delivery>>

(***************************************************************************)
(* The store is unavailable for one call of a turn.  get_user_state lets   *)
(* the exception out; add_message, update_level and mark_as_won roll back, *)
(* log and return False, which update_state_node does not look at.         *)
(***************************************************************************)
\* process_user_message, get_user_state raises: the handler's except sends
\* the apology
GetUserStateRaises(t, p, text) ==
    /\ turn[t].pc = "idle"
    /\ Within
    /\ hist' = Started
    /\ sent' = <<Msg(p, "sorry")>>
    /\ UNCHANGED <<users, msgs, winners, now, turn, sweep, redis, delivery>>

\* load_game_context, get_user_state raises: the safe default context
LoadGameContextRaises(t, wf) ==
    /\ turn[t].pc = "ai_load"
    /\ turn' = [turn EXCEPT ![t] =
          [@ EXCEPT !.ctx = 1, !.wf = wf, !.store_failed = TRUE,
                    !.pc = IF wf = "hackmerlin" THEN "sales" ELSE "evaluate"]]
    /\ sent' = <<>>
    /\ UNCHANGED <<users, msgs, winners, now, sweep, hist, redis, delivery>>

\* update_state_node, add_message returns False: nothing is recorded and the
\* node goes on
UpdateStateRecordFails(t) ==
    /\ turn[t].pc = "upd_add"
    /\ turn' = [turn EXCEPT ![t] =
          IF turn[t].won_level
          THEN [@ EXCEPT !.store_failed = TRUE, !.pc = "upd_write"]
          ELSE [@ EXCEPT !.store_failed = TRUE,
                         !.workflow_step = "state_updated", !.current_level = turn[t].ctx,
                         !.won_game = FALSE, !.pc = "send"]]
    /\ sent' = <<>>
    /\ UNCHANGED <<users, msgs, winners, now, sweep, hist, redis, delivery>>

\* update_state_node, mark_as_won or update_level returns False: the node
\* reports the win or the advance all the same and sends the introduction
UpdateStateApplyFails(t) ==
    /\ turn[t].pc = "upd_write"
    /\ LET p == turn[t].id
           new_level == turn[t].ctx + 1
       IN  IF WonWholeGame(new_level)
           THEN /\ turn' = [turn EXCEPT ![t] =
                       [@ EXCEPT !.store_failed = TRUE, !.workflow_step = "game_won",
                                 !.current_level = MAX_LEVELS, !.won_game = TRUE,
                                 !.pc = "send"]]
                /\ sent' = <<>>
           ELSE /\ turn' = [turn EXCEPT ![t] =
                       [@ EXCEPT !.store_failed = TRUE, !.workflow_step = "level_advanced",
                                 !.current_level = new_level, !.won_game = FALSE,
                                 !.pc = "send"]]
                /\ sent' = <<Msg(p, "level_intro")>>
    /\ UNCHANGED <<users, msgs, winners, now, sweep, hist, redis, delivery>>

(***************************************************************************)
(* ButtonHandler.handle_button_click: the click is recorded first, then    *)
(* routed by its id.                                                       *)
(***************************************************************************)
Buttons == {"how_to_play", "about_jem", "continue", "learn_defense", "continue_game",
            "main_menu", "reset_progress", "select_phone_huawei", "unknown"}

ButtonRoute(button_id) ==
    CASE button_id \in {"how_to_play", "about_jem"} -> "btn_info"
      [] button_id = "continue" -> "btn_continue"
      [] button_id = "learn_defense" -> "btn_learn"
      [] button_id = "reset_progress" -> "btn_reset"
      [] button_id = "select_phone_huawei" -> "btn_phone"
      [] button_id = "main_menu" -> "btn_menu"
      [] OTHER -> "idle"

handle_button_click(t, p, button_id) ==
    /\ turn[t].pc = "idle"
    /\ Within
    /\ hist' = Recorded(Started, p)
    /\ users' = add_message_users(users, p, "user", now)
    /\ msgs' = add_message_msgs(msgs, p, "user", ButtonContent(<<button_id>>))
    /\ turn' = [turn EXCEPT ![t] =
          IF ButtonRoute(button_id) = "idle" THEN IdleTurn
          ELSE [IdleTurn EXCEPT !.id = p, !.kind = "button", !.button = button_id,
                                !.pc = ButtonRoute(button_id)]]
    /\ sent' = <<>>
    /\ UNCHANGED <<winners, now, sweep, redis, delivery>>

\* _handle_how_to_play, _handle_about_jem
HandleInfo(t) ==
    /\ turn[t].pc = "btn_info"
    /\ LET p == turn[t].id
       IN  /\ users' = add_message_users(users, p, "assistant", now)
           /\ msgs' = add_message_msgs(msgs, p, "assistant", <<turn[t].button>>)
           /\ sent' = <<Msg(p, turn[t].button)>>
    /\ turn' = Return(t)
    /\ UNCHANGED <<winners, now, sweep, hist, redis, delivery>>

\* _handle_continue: the level 1 introduction while no typed message is stored
FirstAtLevelOne(us, ms, p) ==
    /\ Exists(us, p)
    /\ us[p].level = 1
    /\ \A i \in 1..Len(ms[p]) :
          ~(ms[p][i].role = "user" /\ ~StartsWith(ms[p][i].content, ButtonPrefix))

HandleContinue(t) ==
    /\ turn[t].pc = "btn_continue"
    /\ sent' = IF FirstAtLevelOne(users, msgs, turn[t].id)
               THEN <<Msg(turn[t].id, "level_intro")>> ELSE <<>>
    /\ turn' = Return(t)
    /\ UNCHANGED <<users, msgs, winners, now, sweep, hist, redis, delivery>>

\* _handle_learn_defense: user_state.level raises when the session is gone
HandleLearnDefense(t) ==
    /\ turn[t].pc = "btn_learn"
    /\ sent' = IF Exists(users, turn[t].id) THEN <<Msg(turn[t].id, "education")>>
               ELSE <<Msg(turn[t].id, "sorry")>>
    /\ turn' = Return(t)
    /\ UNCHANGED <<users, msgs, winners, now, sweep, hist, redis, delivery>>

HandleMainMenu(t) ==
    /\ turn[t].pc = "btn_menu"
    /\ sent' = <<Msg(turn[t].id, "main_menu")>>
    /\ turn' = Return(t)
    /\ UNCHANGED <<users, msgs, winners, now, sweep, hist, redis, delivery>>

\* _handle_reset_progress: reset_user_progress
HandleResetProgress(t) ==
    /\ turn[t].pc = "btn_reset"
    /\ LET p == turn[t].id
       IN  /\ users' = reset_user_progress_users(users, p)
           /\ msgs' = reset_user_progress_msgs(msgs, p)
           /\ winners' = reset_user_progress_winners(winners, p)
           /\ delivery' = reset_user_progress_delivery(delivery, p)
           /\ sent' = <<Msg(p, "progress_reset")>>
    /\ turn' = Return(t)
    /\ UNCHANGED <<now, sweep, hist, redis>>

\* _handle_phone_selection: set_phone_preference, then the confirmation
HandlePhoneSelection(t) ==
    /\ turn[t].pc = "btn_phone"
    /\ winners' = set_phone_preference(winners, turn[t].id, "Huawei Nova Y73")
    /\ sent' = IF Exists(users, turn[t].id) THEN <<Msg(turn[t].id, "confirmation")>>
               ELSE <<>>
    /\ turn' = Return(t)
    /\ UNCHANGED <<users, msgs, now, sweep, hist, redis, delivery>>

(***************************************************************************)
(* process_message of main.py, the handler while the competition is        *)
(* closed: a lucky-draw winner with a delivery record gives a name and an  *)
(* address, everybody else gets the closed screens.  The service runs in   *)
(* several instances, so the read of the state and the write that follows  *)
(* it are two steps.                                                       *)
(***************************************************************************)
\* POST /notify-lucky-winners: the message with the button, then the record
notify_lucky_winners(p, success) ==
    /\ delivery' = IF success THEN create_delivery_record(delivery, winners, p)
                   ELSE delivery
    /\ sent' = IF success THEN <<Msg(p, "lucky_draw_winner")>> ELSE <<>>
    /\ UNCHANGED <<users, msgs, winners, now, turn, sweep, redis, hist>>

\* is_lucky_draw_winner and get_delivery_state, and the branch they choose
process_message(t, p, message_text, button_id) ==
    /\ turn[t].pc = "idle"
    /\ Within
    /\ hist' = Started
    /\ LET is_lucky_winner == is_lucky_draw_winner(p)
           delivery_state == IF is_lucky_winner THEN get_delivery_state(delivery, p)
                             ELSE "None"
       IN  turn' = [turn EXCEPT ![t] =
              [IdleTurn EXCEPT !.id = p, !.kind = IF button_id = "-" THEN "text" ELSE "button",
                   !.text = message_text, !.button = button_id,
                   !.delivery_state = delivery_state,
                   !.pc = CASE ~is_lucky_winner \/ delivery_state = "None" -> "closed"
                            [] button_id = "provide_delivery_details"
                                 /\ delivery_state = "pending" -> "dlv_start"
                            [] delivery_state = "awaiting_name" -> "dlv_name"
                            [] delivery_state = "awaiting_address" -> "dlv_address"
                            [] OTHER -> "closed"]]
    /\ sent' = <<>>
    /\ UNCHANGED <<users, msgs, winners, now, sweep, redis, delivery>>

DeliveryStart(t) ==
    /\ turn[t].pc = "dlv_start"
    /\ delivery' = start_delivery_collection(delivery, turn[t].id)
    /\ sent' = <<Msg(turn[t].id, "delivery_name_request")>>
    /\ turn' = Return(t)
    /\ UNCHANGED <<users, msgs, winners, now, sweep, redis, hist>>

DeliveryName(t) ==
    /\ turn[t].pc = "dlv_name"
    /\ delivery' = update_delivery_name(delivery, turn[t].id, turn[t].text)
    /\ sent' = <<Msg(turn[t].id, "delivery_address_request")>>
    /\ turn' = Return(t)
    /\ UNCHANGED <<users, msgs, winners, now, sweep, redis, hist>>

DeliveryAddress(t) ==
    /\ turn[t].pc = "dlv_address"
    /\ delivery' = update_delivery_address(delivery, turn[t].id, turn[t].text)
    /\ sent' = <<Msg(turn[t].id, "delivery_confirmation")>>
    /\ turn' = Return(t)
    /\ UNCHANGED <<users, msgs, winners, now, sweep, redis, hist>>

\* the closed screens, chosen by the button
CompetitionClosed(t) ==
    /\ turn[t].pc = "closed"
    /\ sent' = <<Msg(turn[t].id,
                     CASE turn[t].button = "closed_tech_details" -> "closed_tech_details"
                       [] turn[t].button = "closed_about_jem" -> "closed_about_jem"
                       [] OTHER -> "competition_closed")>>
    /\ turn' = Return(t)
    /\ UNCHANGED <<users, msgs, winners, now, sweep, redis, delivery, hist>>

(***************************************************************************)
(* SessionService.check_inactive_sessions (the /check-sessions job)        *)
(***************************************************************************)
SweepSelect(s) ==
    /\ sweep[s].pc = "idle"
    /\ sweep' = [sweep EXCEPT ![s] =
          [pc |-> "loop", cur |-> "-",
           list |-> get_inactive_users_for_warning(users, SESSION_WARNING_MINUTES, now)]]
    /\ sent' = <<>>
    /\ UNCHANGED <<users, msgs, winners, now, turn, hist, redis, delivery>>

\* _send_warning: send_message; its result decides whether the user is marked
SweepSend(s, p, success) ==
    /\ sweep[s].pc = "loop"
    /\ p \in sweep[s].list
    /\ sweep' = [sweep EXCEPT ![s] =
          [@ EXCEPT !.list = @ \ {p},
                    !.cur = IF success THEN p ELSE "-",
                    !.pc = IF success THEN "mark" ELSE "loop"]]
    /\ sent' = IF success THEN <<Msg(p, "warning")>> ELSE <<>>
    /\ hist' = IF success THEN Warned(hist, p) ELSE hist
    /\ UNCHANGED <<users, msgs, winners, now, turn, redis, delivery>>

SweepMark(s) ==
    /\ sweep[s].pc = "mark"
    /\ users' = mark_session_warned(users, sweep[s].cur, now)
    /\ sweep' = [sweep EXCEPT ![s] = [@ EXCEPT !.pc = "loop", !.cur = "-"]]
    /\ sent' = <<>>
    /\ hist' = IF Exists(users, sweep[s].cur)
               THEN [hist EXCEPT !.warned = @ \cup {sweep[s].cur}] ELSE hist
    /\ UNCHANGED <<msgs, winners, now, turn, redis, delivery>>

\* a variant that gives up after the first identity; C27 tells it apart
SweepReturn_early(s) ==
    /\ sweep[s].pc = "loop"
    /\ sweep' = [sweep EXCEPT ![s] = IdleSweep]
    /\ sent' = <<>>
    /\ UNCHANGED <<users, msgs, winners, now, turn, hist, redis, delivery>>

SweepReturn(s) ==
    /\ sweep[s].pc = "loop"
    /\ sweep[s].list = {}
    /\ sweep' = [sweep EXCEPT ![s] = IdleSweep]
    /\ sent' = <<>>
    /\ UNCHANGED <<users, msgs, winners, now, turn, hist, redis, delivery>>

\* the clock, up to a last minute
TickTo(last) ==
    /\ now < last
    /\ now' = now + 1
    /\ sent' = <<>>
    /\ UNCHANGED <<users, msgs, winners, turn, sweep, hist, redis, delivery>>

Tick == TickTo(MaxTime)

(***************************************************************************)
(* The steps of the program                                                *)
(***************************************************************************)
GenOutcomes == {"ok", "bad_json", "raise"}
JudgeOutcomes == {"yes", "no", "bad_json", "raise"}

\* the steps of the turns that carry a text: the classification and the pipeline
TextSteps(I, TX, WF, GEN, JUDGE) ==
    \E t \in Turns :
        \/ \E p \in I, text \in TX : process_user_message(t, p, text)
        \/ \E wf \in WF : load_game_context(t, wf)
        \/ \E gen \in GEN \ {"bad_json"} : sales_conversation_node(t, gen)
        \/ \E judge \in JUDGE : self_evaluation_node(t, judge)
        \/ UpdateStateRecord(t)
        \/ whatsapp_sender_node(t)

\* the steps only a turn of create_ai_game_workflow takes
AiGameSteps(GEN, JUDGE) ==
    \E t \in Turns :
        \/ \E judge \in JUDGE : evaluation_node(t, judge)
        \/ \E gen \in GEN : response_node(t, gen)
        \/ UpdateStateApply(t)

NewUserSteps ==
    \E t \in Turns :
        \/ HandleNewUserCreate(t)
        \/ HandleNewUserWelcome(t)

ResetSteps(I) ==
    \E t \in Turns :
        \/ \E p \in I : handle_button_click(t, p, "reset_progress")
        \/ HandleResetProgress(t)

ExpiredSteps ==
    \E t \in Turns :
        \/ HandleSessionExpiredStart(t)
        \/ HandleSessionExpiredUser(t)
        \/ HandleSessionExpiredReply(t)

ButtonSteps(I, BTN) ==
    \E t \in Turns :
        \/ \E p \in I, b \in BTN : handle_button_click(t, p, b)
        \/ HandleInfo(t)
        \/ HandleContinue(t)
        \/ HandleLearnDefense(t)
        \/ HandleMainMenu(t)
        \/ HandlePhoneSelection(t)

\* the steps of a turn of create_hackmerlin_workflow, the transaction of
\* add_message in two steps
CountSteps(I, TX) ==
    \E t \in Turns :
        \/ \E p \in I, text \in TX : process_user_message(t, p, text)
        \/ load_game_context(t, "hackmerlin")
        \/ sales_conversation_node(t, "ok")
        \/ self_evaluation_node(t, "no")
        \/ AddMessageQuery(t)
        \/ AddMessageCommit(t)
        \/ whatsapp_sender_node(t)

\* the steps of a turn whose store call fails
FaultSteps(I, TX, WF) ==
    \E t \in Turns :
        \/ \E p \in I, text \in TX : GetUserStateRaises(t, p, text)
        \/ \E wf \in WF : LoadGameContextRaises(t, wf)
        \/ UpdateStateRecordFails(t)
        \/ UpdateStateApplyFails(t)

\* the methods of PostgresStore called one by one, as the handlers call them,
\* on any identity; hist counts the calls
StoreSteps(I, ROLES, TX) ==
    \E p \in I :
        \/ \E role \in ROLES, content \in TX : StoreAddMessage(p, role, content)
        \/ StoreMarkAsWon(p)
        \/ StoreResetUserProgress(p)

BothSteps(I, ROLES, TX, LV) ==
    \E p \in I :
        \/ BothCreateNewUser(p)
        \/ \E role \in ROLES, content \in TX : BothAddMessage(p, role, content)
        \/ \E new_level \in LV : BothUpdateLevel(p, new_level)
        \/ BothMarkAsWon(p)
        \/ BothStartNewSession(p)
        \/ BothMarkSessionWarned(p)

DeliverySteps(I, TX, BTN) ==
    \/ \E p \in I, success \in BOOLEAN : notify_lucky_winners(p, success)
    \/ \E t \in Turns :
          \/ \E p \in I, message_text \in TX, button_id \in BTN :
                process_message(t, p, message_text, button_id)
          \/ DeliveryStart(t)
          \/ DeliveryName(t)
          \/ DeliveryAddress(t)
          \/ CompetitionClosed(t)

SweepSteps(S) ==
    \E s \in S :
        \/ SweepSelect(s)
        \/ \E p \in Ids, success \in BOOLEAN : SweepSend(s, p, success)
        \/ SweepMark(s)
        \/ SweepReturn(s)

(***************************************************************************)
(* Spec: the inbound messages (texts and reset clicks) of one identity,     *)
(* which never wrote or has played to some level, are handled by two       *)
(* concurrent tasks.  The clock stands still.                              *)
(***************************************************************************)
\* the store of an identity that was welcomed at time 0 and then won its way
\* to the level: one counted message for every level won
PlayedRow(level) == [NewUserRow(0) EXCEPT !.level = level, !.attempts = level - 1]

RECURSIVE Repeat(_, _)
Repeat(x, n) == IF n = 0 THEN <<>> ELSE Append(Repeat(x, n - 1), x)

PlayedMessages(level) ==
    <<MessageRow("assistant", <<"welcome">>)>> \o Repeat(MessageRow("user", T_hi), level - 1)

Hist(level, limit) ==
    [started |-> 0, limit |-> limit, finished |-> 0, passes |-> 0,
     level |-> level, attempts |-> IF level = 0 THEN 0 ELSE level - 1,
     warned |-> {}, warnings |-> [p \in Ids |-> "none"]]

\* level 0 stands for the identity that never wrote
InitStore(p, level, limit) ==
    /\ users = IF level = 0 THEN <<>> ELSE [x \in {p} |-> PlayedRow(level)]
    /\ msgs = [x \in Ids |-> IF x = p /\ level > 0 THEN PlayedMessages(level) ELSE <<>>]
    /\ winners = {}
    /\ now = 0
    /\ turn = [t \in Turns |-> IdleTurn]
    /\ sweep = [s \in Sweeps |-> IdleSweep]
    /\ sent = <<>>
    /\ redis = <<>>
    /\ delivery = <<>>
    /\ hist = Hist(level, limit)

Init == \E level \in 0..MAX_LEVELS : InitStore("u1", level, MaxTurns)

Next ==
    \/ TextSteps({"u1"}, {T_hi}, Workflows, GenOutcomes, JudgeOutcomes)
    \/ AiGameSteps(GenOutcomes, JudgeOutcomes)
    \/ NewUserSteps
    \/ ResetSteps({"u1"})

Spec == Init /\ [][Next]_vars

(***************************************************************************)
(* SpecPair: an identity that has played to some level sends two texts;    *)
(* the two turns run in any interleaving, one after the other included.    *)
(***************************************************************************)
InitPair == \E level \in 1..MAX_LEVELS : InitStore("u1", level, 2)

NextPair ==
    \/ TextSteps({"u1"}, {T_hi}, Workflows, {"ok"}, {"yes", "no"})
    \/ AiGameSteps({"ok"}, {"yes", "no"})

SpecPair == InitPair /\ [][NextPair]_vars

(***************************************************************************)
(* SpecLife: the clock runs; texts arrive for new, active and expired      *)
(* sessions, and the warning job sweeps the store.                         *)
(***************************************************************************)
InitLife == \E level \in 0..MAX_LEVELS : InitStore("u1", level, MaxTurns)

NextLife ==
    \/ TextSteps({"u1"}, {T_hi}, {"hackmerlin"}, {"ok"}, {"no"})
    \/ NewUserSteps
    \/ ExpiredSteps
    \/ SweepSteps({"s1"})
    \/ Tick

SpecLife == InitLife /\ [][NextLife]_vars

(***************************************************************************)
(* SpecSweep: the clock runs long enough for a warned session to grow old  *)
(* again; the warning job is invoked by two callers that may overlap, and  *)
(* the identity, which is at level 1, writes now and then.                 *)
(***************************************************************************)
InitSweep == InitStore("u1", 1, MaxSweepTurns)

NextSweep ==
    \/ TextSteps({"u1"}, {T_hi}, {"hackmerlin"}, {"ok"}, {"no"})
    \/ ExpiredSteps
    \/ SweepSteps(Sweeps)
    \/ TickTo(MaxSweepTime)

SpecSweep == InitSweep /\ [][NextSweep]_vars

(***************************************************************************)
(* SpecGate: an identity at any level sends short, blank, empty and        *)
(* banned-word texts to either workflow; the models answer.                *)
(***************************************************************************)
GateTexts == {T_hi, T_Free, T_blank, T_empty}

InitGate == \E level \in 1..MAX_LEVELS : InitStore("u1", level, MaxGateTurns)

NextGate ==
    \/ TextSteps({"u1"}, GateTexts, Workflows, {"ok"}, {"yes", "no"})
    \/ AiGameSteps({"ok"}, {"yes", "no"})

SpecGate == InitGate /\ [][NextGate]_vars

(***************************************************************************)
(* SpecCount: an identity that has played to some level sends two texts    *)
(* that two instances of the service handle; the transactions of           *)
(* add_message overlap.                                                    *)
(***************************************************************************)
InitCount == \E level \in 1..MAX_LEVELS : InitStore("u1", level, MaxCountTurns)

NextCount == CountSteps({"u1"}, {T_hi})

SpecCount == InitCount /\ [][NextCount]_vars

(***************************************************************************)
(* SpecFault: an identity that has played to some level sends texts while  *)
(* the store is unavailable for some of the calls.                         *)
(***************************************************************************)
InitFault == \E level \in 1..MAX_LEVELS : InitStore("u1", level, MaxFaultTurns)

NextFault ==
    \/ TextSteps({"u1"}, {T_hi}, Workflows, {"ok"}, {"yes", "no"})
    \/ AiGameSteps({"ok"}, {"yes", "no"})
    \/ FaultSteps({"u1"}, {T_hi}, Workflows)

SpecFault == InitFault /\ [][NextFault]_vars

(***************************************************************************)
(* SpecLlm: an identity that has played to some level sends texts; every   *)
(* call of a model answers, answers what does not parse, or raises.        *)
(***************************************************************************)
InitLlm == \E level \in 1..MAX_LEVELS : InitStore("u1", level, MaxLlmTurns)

NextLlm ==
    \/ TextSteps({"u1"}, {T_hi}, Workflows, GenOutcomes, JudgeOutcomes)
    \/ AiGameSteps(GenOutcomes, JudgeOutcomes)

SpecLlm == InitLlm /\ [][NextLlm]_vars

(***************************************************************************)
(* SpecStore: two identities, each with no session, a fresh one or one at  *)
(* the last level, warned or not; the store methods are called in any      *)
(* order on either of them while the clock runs.                           *)
(***************************************************************************)
StoreRows ==
    {[PlayedRow(level) EXCEPT !.session_warned = warned] :
        level \in {1, MAX_LEVELS}, warned \in BOOLEAN}

InitStoreRows ==
    /\ \E I \in SUBSET Ids : users \in [I -> StoreRows]
    /\ msgs = [x \in Ids |-> IF Exists(users, x) THEN PlayedMessages(users[x].level)
                             ELSE <<>>]
    /\ winners = {}
    /\ now = 0
    /\ turn = [t \in Turns |-> IdleTurn]
    /\ sweep = [s \in Sweeps |-> IdleSweep]
    /\ sent = <<>>
    /\ redis = <<>>
    /\ delivery = <<>>
    /\ hist = Hist(0, MaxStoreCalls)

NextStore ==
    \/ StoreSteps(Ids, {"user", "assistant"}, {T_hi})
    \/ TickTo(MaxStoreTime)

SpecStore == InitStoreRows /\ [][NextStore]_vars

(***************************************************************************)
(* SpecWarn: the warning job runs over a store of two identities while     *)
(* the clock runs; a send succeeds or fails.  The job is a request handler *)
(* that runs its loop to the end, so its steps are taken when they can be. *)
(***************************************************************************)
NextWarn ==
    \/ SweepSteps({"s1"})
    \/ TickTo(MaxTime)

SpecWarn == InitStoreRows /\ [][NextWarn]_vars /\ WF_vars(SweepSteps({"s1"}))

(***************************************************************************)
(* SpecButton: the clock runs and an identity that has played to some      *)
(* level clicks buttons.                                                   *)
(***************************************************************************)
ClickedButtons ==
    {"how_to_play", "continue", "learn_defense", "continue_game", "main_menu",
     "select_phone_huawei"}

InitButton == \E level \in {1, MAX_LEVELS} : InitStore("u1", level, MaxButtonTurns)

NextButton ==
    \/ ButtonSteps({"u1"}, ClickedButtons)
    \/ Tick

SpecButton == InitButton /\ [][NextButton]_vars

(***************************************************************************)
(* SpecBoth: a PostgresStore and a RedisStore, both empty, are given the   *)
(* same calls in the same order while the clock runs.                      *)
(***************************************************************************)
InitBoth == InitStore("u1", 0, MaxBothCalls)

NextBoth ==
    \/ BothSteps({"u1"}, {"user", "assistant"}, {T_hi}, {2})
    \/ TickTo(MaxBothTime)

SpecBoth == InitBoth /\ [][NextBoth]_vars

(***************************************************************************)
(* SpecDelivery: the competition is closed; the identity u1 has won the    *)
(* game and is a lucky-draw winner, u2 never played.  The winners are      *)
(* notified and write; two instances of the service handle the messages.   *)
(***************************************************************************)
DeliveryButtons == {"-", "provide_delivery_details", "closed_tech_details"}

InitDelivery ==
    /\ users = mark_as_won_users([x \in {"u1"} |-> PlayedRow(MAX_LEVELS)], "u1", 0)
    /\ msgs = [x \in Ids |-> IF x = "u1" THEN PlayedMessages(MAX_LEVELS) ELSE <<>>]
    /\ winners = mark_as_won_winners([x \in {"u1"} |-> PlayedRow(MAX_LEVELS)], {}, "u1", 0)
    /\ now = 0
    /\ turn = [t \in Turns |-> IdleTurn]
    /\ sweep = [s \in Sweeps |-> IdleSweep]
    /\ sent = <<>>
    /\ redis = <<>>
    /\ delivery = <<>>
    /\ hist = Hist(MAX_LEVELS, MaxDeliveryTurns)

NextDelivery == DeliverySteps(Ids, {T_hi}, DeliveryButtons)

SpecDelivery == InitDelivery /\ [][NextDelivery]_vars

(***************************************************************************)
(* Properties                                                              *)
(***************************************************************************)
Stored(us, p) == Exists(us, p)

Uncommitted(t) ==
    turn[t].pc \in {"sales", "self_eval", "evaluate", "respond", "upd_add", "upd_write"}

\* C3: no two pipeline executions of one identity are in flight together: no
\* turn has read the session while another turn of the same identity, which
\* read it too, still has store writes to commit.
C3_OnePipelinePerIdentity ==
    \A t1 \in Turns, t2 \in Turns :
        (t1 # t2 /\ Uncommitted(t1) /\ Uncommitted(t2)) => turn[t1].id # turn[t2].id

\* the session that advance, applied once for every turn that won its level,
\* makes of a session at the level
RECURSIVE AdvanceTimes(_, _)
AdvanceTimes(session, n) ==
    IF n = 0 \/ session.won THEN session
    ELSE AdvanceTimes(IF session.level < MAX_LEVELS
                      THEN [level |-> session.level + 1, won |-> FALSE]
                      ELSE [level |-> MAX_LEVELS, won |-> TRUE], n - 1)

BothTurnsFinished ==
    /\ hist.started = 2
    /\ hist.finished = 2
    /\ \A t \in Turns : turn[t].pc = "idle"

advance(level, passed, maxLevel) ==
    IF ~passed THEN [level |-> level, won |-> FALSE]
    ELSE IF level < maxLevel THEN [level |-> level + 1, won |-> FALSE]
    ELSE [level |-> maxLevel, won |-> TRUE]

\* the steps of update_state_node in turn t
RecordsTurn(t) == turn[t].pc = "upd_add" /\ turn'[t].pc # "upd_add"
AppliesOutcome(t) == turn[t].pc = "upd_write" /\ turn'[t].pc = "send"

\* the stored session is the one the turn read: at the turn's level, not won
AsRead(t) ==
    /\ Stored(users, turn[t].id)
    /\ users[turn[t].id].level = turn[t].ctx
    /\ ~users[turn[t].id].won

\* C4: the state-update stage applies advance(level, passed, MAX_LEVELS) for
\* the level the turn read and its outcome: recording the message changes
\* neither level nor won, a turn that did not pass stops there and reports
\* the level unchanged, and a turn that passed reports advance's level and
\* won and, on a session that is as the turn read it, stores them.
C4_UpdateAppliesAdvance ==
    [][\A t \in Turns :
          LET p == turn[t].id
              a == advance(turn[t].ctx, turn[t].won_level, MAX_LEVELS)
          IN  /\ RecordsTurn(t) =>
                    /\ Stored(users, p) =>
                          /\ users'[p].level = users[p].level
                          /\ users'[p].won = users[p].won
                    /\ ~turn[t].won_level =>
                          /\ turn'[t].pc = "send"
                          /\ turn'[t].current_level = a.level
                          /\ turn'[t].won_game = a.won
              /\ AppliesOutcome(t) =>
                    /\ turn[t].won_level
                    /\ turn'[t].current_level = a.level
                    /\ turn'[t].won_game = a.won
                    /\ AsRead(t) =>
                          /\ users'[p].level = a.level
                          /\ users'[p].won = a.won]_vars

\* a turn that passed the last level has written its outcome
C4_Witness ==
    \E t \in Turns :
        /\ turn[t].pc = "send"
        /\ turn[t].workflow_step = "game_won"
        /\ turn[t].ctx = MAX_LEVELS
        /\ Stored(users, turn[t].id)
        /\ users[turn[t].id].won
        /\ users[turn[t].id].level = MAX_LEVELS

\* turn t takes the step
Acts(t) == turn'[t] # turn[t]

C7_WonSessionSkipsPipeline ==
    \A t \in Turns :
        turn[t].received_won =>
            /\ turn[t].llm = 0
            /\ turn[t].pc \notin {"sales", "self_eval", "evaluate", "respond"}

WinnersOf(ws, p) == {w \in ws : w.phone_number = p}

\* turn t takes the step that calls mark_as_won
MarksAsWon(t) == AppliesOutcome(t) /\ turn'[t].workflow_step = "game_won"

\* C8: an identity has at most one Winner record, and a call of mark_as_won
\* for an identity that has one leaves that record, its rank included, as it is.
C8_OneWinnerRecord ==
    [][\A p \in Ids :
          /\ Cardinality(WinnersOf(winners', p)) <= 1
          /\ \A t \in Turns :
                (MarksAsWon(t) /\ turn[t].id = p /\ Stored(users, p)) =>
                    /\ Cardinality(WinnersOf(winners', p)) = 1
                    /\ WinnersOf(winners, p) # {} => WinnersOf(winners', p) = WinnersOf(winners, p)
                    /\ \A w \in WinnersOf(winners, p), w2 \in WinnersOf(winners', p) :
                          w2.rank = w.rank]_vars

\* two turns of one identity have both called mark_as_won
C8_Witness ==
    /\ \A t \in Turns :
          /\ turn[t].pc = "send"
          /\ turn[t].workflow_step = "game_won"
          /\ turn[t].id = "u1"
    /\ Cardinality(WinnersOf(winners, "u1")) = 1

\* the call of the judge failed in turn t
JudgeFailed(t) ==
    turn[t].reasoning \in {"Evaluation parsing failed", "Evaluation error occurred",
                           "Evaluation error"}

\* C9: a turn whose call of the judge raised or returned what does not parse
\* has passed = won_level = false, and no step of it changes the level or won
\* of the stored session.
C9_FailClosed ==
    [][\A t \in Turns :
          /\ JudgeFailed(t)' => (~turn'[t].won_level /\ ~turn'[t].passed)
          /\ (JudgeFailed(t) /\ Acts(t) /\ Stored(users, turn[t].id)) =>
                /\ Stored(users', turn[t].id)
                /\ users'[turn[t].id].level = users[turn[t].id].level
                /\ users'[turn[t].id].won = users[turn[t].id].won]_vars

\* a turn whose judge failed has gone through update_state_node
C9_Witness ==
    \E t \in Turns :
        /\ JudgeFailed(t)
        /\ turn[t].pc = "send"
        /\ turn[t].workflow_step = "state_updated"
        /\ turn[t].ctx = users[turn[t].id].level

\* turn t, handling a text classified EXPIRED, takes the step from pc to next
Resumes(t, pc, next) ==
    /\ turn[t].cls = "EXPIRED"
    /\ turn[t].pc = pc
    /\ turn'[t].pc = next
    /\ Stored(users, turn[t].id)

KeepsLevelAndWon(p) ==
    /\ Stored(users', p)
    /\ users'[p].level = users[p].level
    /\ users'[p].won = users[p].won

Receives(t, p) == turn[t].pc = "idle" /\ turn'[t].kind = "text" /\ turn'[t].id = p

\* C11: a text is classified as exactly one of NEW, EXPIRED, ACTIVE: NEW iff
\* the identity has no session, EXPIRED iff it has one and now - last_active
\* is at least the timeout (equal included), ACTIVE otherwise; the handling
\* starts accordingly.
C11_ClassifiedExactlyOne ==
    [][\A t \in Turns, p \in Ids :
          Receives(t, p) =>
              /\ turn'[t].cls \in {"NEW", "EXPIRED", "ACTIVE"}
              /\ turn'[t].cls = "NEW" <=> ~Stored(users, p)
              /\ turn'[t].cls = "EXPIRED" <=>
                    (Stored(users, p) /\ now - users[p].last_active >= SESSION_TIMEOUT_MINUTES)
              /\ turn'[t].cls = "ACTIVE" <=>
                    (Stored(users, p) /\ now - users[p].last_active < SESSION_TIMEOUT_MINUTES)
              /\ turn'[t].pc = CASE turn'[t].cls = "NEW" -> "new_create"
                                 [] turn'[t].cls = "EXPIRED" -> "exp_start"
                                 [] OTHER -> "ai_load"]_vars

\* a text was classified EXPIRED at an inactivity of exactly the timeout
C11_Witness ==
    \E t \in Turns :
        /\ turn[t].pc = "exp_start"
        /\ turn[t].cls = "EXPIRED"
        /\ Stored(users, turn[t].id)
        /\ now - users[turn[t].id].last_active = SESSION_TIMEOUT_MINUTES

\* sweep s takes the step that selects the identities to warn
Selects(s) == sweep[s].pc = "idle" /\ sweep'[s].pc = "loop"

\* the step records a user-role message of p
RecordsUserMessage(p) ==
    /\ Len(msgs'[p]) = Len(msgs[p]) + 1
    /\ msgs'[p][Len(msgs'[p])].role = "user"

\* C12 as stated: an identity that was marked as warned is selected by no
\* sweep until a user-role message of it has been recorded.
C12_NotSelectedUntilUserMessage ==
    [][\A s \in Sweeps : Selects(s) => sweep'[s].list \cap hist.warned = {}]_vars

\* C12 as amended: no sweep selects an identity whose session_warned is true,
\* and session_warned, once true, is cleared only by the step that records a
\* user-role message of the identity or by start_new_session, when a text
\* resumes its expired session.
C12_NotSelectedWhileWarned ==
    [][/\ \A s \in Sweeps : Selects(s) =>
             \A p \in sweep'[s].list : Stored(users, p) /\ ~users[p].session_warned
       /\ \A p \in Ids :
             (Stored(users, p) /\ users[p].session_warned
                /\ ~(Stored(users', p) /\ users'[p].session_warned)) =>
                 \/ RecordsUserMessage(p)
                 \/ \E t \in Turns : turn[t].id = p /\ Resumes(t, "exp_start", "exp_user")]_vars

\* a sweep has just passed over a warned identity that is in the window of
\* the warning again
C12_Witness ==
    \E s \in Sweeps :
        /\ sweep[s].pc = "loop"
        /\ sweep[s].list = {}
        /\ sweep[s].cur = "-"
        /\ Stored(users, "u1")
        /\ users["u1"].session_warned
        /\ ~users["u1"].won
        /\ users["u1"].last_active < now - SESSION_WARNING_MINUTES
        /\ users["u1"].last_active >= now - SESSION_TIMEOUT_MINUTES
        /\ \A s2 \in Sweeps \ {s} : sweep[s2].pc = "idle"

\* C13: between two consecutive user-role messages of an identity at most
\* one inactivity warning is sent to it, whatever sweeps run and overlap.
C13_OneWarningPerWindow ==
    \A p \in Ids : hist.warnings[p] # "more"

\* sweepForWarnings of the specification
InWarningWindow(us, p, t) ==
    /\ SESSION_WARNING_MINUTES <= t - us[p].last_active
    /\ t - us[p].last_active < SESSION_TIMEOUT_MINUTES
    /\ us[p].session_warned = FALSE
    /\ us[p].won = FALSE

\* C14: the selection of a sweep is exactly the set of the identities whose
\* inactivity is at least the warning threshold and less than the timeout and
\* that are neither warned nor won.
C14_SelectsTheWindow ==
    [][\A s \in Sweeps : Selects(s) =>
          sweep'[s].list = {p \in DOMAIN users : InWarningWindow(users, p, now)}]_vars

\* a turn of the pipeline that holds the level it loaded
InPipeline(t) ==
    turn[t].kind = "text" /\ turn[t].cls = "ACTIVE" /\ turn[t].ctx \in 1..MAX_LEVELS

\* C15: in an ACTIVE turn a message shorter than the minimum input length of
\* the level the turn loaded makes no call of a model.
C15_ShortNeverReachesModel ==
    \A t \in Turns :
        InPipeline(t) /\ Len(turn[t].text) < LEVEL_CONFIGS_min_length(turn[t].ctx)
            => turn[t].llm = 0

\* the message holds a banned word of the level, whatever its capitals
HasBannedWord(text, level) ==
    \E word \in get_input_filter_words(level) : Contains(word, LowerSeq(text))

Gated(t) ==
    InPipeline(t) /\ turn[t].wf = "hackmerlin" /\ HasBannedWord(turn[t].text, turn[t].ctx)

\* C16: in an ACTIVE turn of the workflow with the input filter, at a level
\* with banned words, a message holding one of them is answered without a
\* call of a model, its outcome is not a pass, and no step of the turn
\* changes the stored level or won.
C16_BannedWordRejected ==
    [][\A t \in Turns : Gated(t) /\ turn'[t] # turn[t] =>
          /\ turn'[t].llm = 0
          /\ turn'[t].won_level = FALSE /\ turn'[t].passed = FALSE
          /\ Exists(users, turn[t].id) =>
                /\ Exists(users', turn[t].id)
                /\ users'[turn[t].id].level = users[turn[t].id].level
                /\ users'[turn[t].id].won = users[turn[t].id].won]_vars

C16_Witness ==
    \E t \in Turns :
        /\ Gated(t)
        /\ turn[t].workflow_step = "input_blocked"
        /\ turn[t].structured_response = <<"input_blocked">>
        /\ turn[t].llm = 0

\* a message of blanks only, the empty message included
Blank(text) == \A i \in 1..Len(text) : text[i] = " "

\* C17: an empty or whitespace-only message makes no call of a model, neither
\* the generating nor the judging one.
C17_BlankNeverReachesModel ==
    \A t \in Turns : turn[t].kind = "text" /\ Blank(turn[t].text) => turn[t].llm = 0

\* every handler has returned
AllIdle == \A t \in Turns : turn[t].pc = "idle"

\* C18: every inbound message of the identity, its first one included, adds
\* exactly one to attempts, so that with every handler returned attempts is
\* what the identity started with plus the messages received; and no step
\* that is not a reset takes attempts down.
C18_EveryMessageCounts ==
    [][/\ AllIdle' /\ Exists(users', "u1") =>
              users'["u1"].attempts = hist'.attempts + hist'.started
       /\ \A p \in DOMAIN users :
              /\ Exists(users', p)
              /\ users'[p].attempts >= users[p].attempts]_vars

\* the user-role entries of a message log
UserEntries(log) == Cardinality({i \in 1..Len(log) : log[i].role = "user"})

\* C19: in every state attempts of a stored session is at least the number
\* of user-role entries of its message log.
C19_AttemptsCoverUserEntries ==
    \A p \in DOMAIN users : users[p].attempts >= UserEntries(msgs[p])

\* C20: in every state a session that has won stands at level N + 1, N the
\* number of levels.
C20_WonStandsPastLastLevel ==
    \A p \in DOMAIN users : users[p].won => users[p].level = MAX_LEVELS + 1

\* the handler of a first message takes its create step
Creates(t) == turn[t].pc = "new_create" /\ turn'[t] # turn[t]

\* C21: a create of an identity leaves one session of it; the create that
\* finds the session of a concurrent creator takes that session as it is and
\* goes on to the welcome: it neither fails nor overwrites.
C21_RacingCreateObservesWinner ==
    [][\A t \in Turns : Creates(t) =>
          /\ Exists(users', turn[t].id)
          /\ Exists(users, turn[t].id) => users'[turn[t].id] = users[turn[t].id]
          /\ turn'[t].pc = "new_welcome"
          /\ sent' = <<>>]_vars

\* a step of a turn in which a store call has failed, the failing step included
AfterStoreFailure(t) ==
    \/ turn[t].store_failed /\ turn'[t] # turn[t]
    \/ turn'[t].store_failed
    \/ turn[t].pc = "idle" /\ turn'[t].pc = "idle" /\ hist'.started > hist.started

\* C22: a turn in which the store has failed delivers nothing, and the store
\* is as it was before the turn: while the turn is the only one received, the
\* rows are those the behaviour started with.
C22_StoreFailureLeavesNoTrace ==
    [][\A t \in Turns : AfterStoreFailure(t) =>
          /\ sent' = <<>>
          /\ hist'.started = 1 =>
                /\ users' = [x \in {"u1"} |-> PlayedRow(hist.level)]
                /\ msgs' = [x \in Ids |-> IF x = "u1" THEN PlayedMessages(hist.level)
                                          ELSE <<>>]
                /\ winners' = {}]_vars

\* the sales model failed in this turn of create_hackmerlin_workflow: the
\* reply of the turn is the static text of the except branch
GenerationFailed(t) ==
    /\ turn[t].wf = "hackmerlin"
    /\ turn[t].structured_response = <<"trouble">>

\* C23: a turn whose response generation failed goes on: it is not a pass,
\* update_state records its user message and counts the attempt, and the
\* sender delivers the static fallback text.
C23_GenerationFailureFallsBack ==
    [][\A t \in Turns : GenerationFailed(t) /\ turn'[t] # turn[t] =>
          LET p == turn[t].id
          IN  /\ turn[t].won_level = FALSE /\ turn[t].passed = FALSE
              /\ turn[t].pc = "self_eval" =>
                    turn'[t].pc = "upd_add" /\ turn'[t].won_level = FALSE
              /\ turn[t].pc = "upd_add" =>
                    /\ turn'[t].pc = "send"
                    /\ Exists(users', p)
                    /\ users'[p].attempts =
                          (IF Exists(users, p) THEN users[p].attempts ELSE 0) + 1
                    /\ msgs'[p] = Append(msgs[p], MessageRow("user", turn[t].text))
              /\ turn[t].pc = "send" =>
                    /\ sent' = <<Msg(p, "trouble")>>
                    /\ turn'[t].pc = "idle"
              /\ turn[t].pc \in {"self_eval", "upd_add", "send"}]_vars

C23_Witness ==
    /\ sent = <<Msg("u1", "trouble")>>
    /\ hist.finished >= 1
    /\ Exists(users, "u1")
    /\ users["u1"].attempts > hist.attempts
    /\ users["u1"].level = hist.level

\* the static texts a generating node substitutes for the answer of its model
Fallbacks == {<<"trouble">>, <<"well_done">>, <<"keep_trying">>}

\* C24: a generating node substitutes its fallback only after two failed
\* calls of its model, the call and one retry.
C24_FallbackAfterOneRetry ==
    [][\A t \in Turns :
          /\ turn[t].pc \in {"sales", "respond"}
          /\ turn'[t].structured_response \in Fallbacks
          => turn'[t].llm = turn[t].llm + 2]_vars

\* C25: add_message on an existing session appends one message and sets
\* last_active to now; a user message adds one to attempts and clears
\* session_warned, an assistant message leaves both; level and won stay.
C25_AddMessageEffect ==
    [][\A p \in Ids, role \in {"user", "assistant"} :
          StoreAddMessage(p, role, T_hi) /\ Exists(users, p) =>
              /\ DOMAIN users' = DOMAIN users
              /\ msgs'[p] = Append(msgs[p], [role |-> role, content |-> T_hi])
              /\ \A q \in Ids \ {p} : msgs'[q] = msgs[q]
              /\ users'[p].last_active = now
              /\ users'[p].attempts = users[p].attempts + (IF role = "user" THEN 1 ELSE 0)
              /\ users'[p].session_warned = (role # "user" /\ users[p].session_warned)
              /\ users'[p].level = users[p].level
              /\ users'[p].won = users[p].won]_vars

C25_Witness ==
    /\ now = 1
    /\ Exists(users, "u1")
    /\ users["u1"].last_active = 1
    /\ users["u1"].session_warned
    /\ users["u1"].level = MAX_LEVELS
    /\ Len(msgs["u1"]) = MAX_LEVELS + 1
    /\ msgs["u1"][MAX_LEVELS + 1].role = "assistant"

\* C26: after reset_user_progress of an identity there is no session, no
\* message and no winner row of it, and the rows of every other identity are
\* as before.
C26_ResetRemovesOneIdentity ==
    [][\A p \in Ids : StoreResetUserProgress(p) =>
          /\ ~Exists(users', p)
          /\ msgs'[p] = <<>>
          /\ WinnersOf(winners', p) = {}
          /\ \A q \in Ids \ {p} :
                /\ Exists(users', q) = Exists(users, q)
                /\ Exists(users, q) => users'[q] = users[q]
                /\ msgs'[q] = msgs[q]
                /\ WinnersOf(winners', q) = WinnersOf(winners, q)]_vars

C26_Witness ==
    /\ ~Exists(users, "u1")
    /\ msgs["u1"] = <<>>
    /\ WinnersOf(winners, "u1") = {}
    /\ \E w \in WinnersOf(winners, "u2") : w.rank = 2
    /\ Exists(users, "u2") /\ users["u2"].won

\* C27: a send that fails takes only its own identity off the list of the
\* sweep and leaves the sweep in its loop; the sweep returns only when every
\* selected identity has had its attempt, and a sweep that started returns.
C27_SweepIsBestEffort ==
    /\ [][\A s \in Sweeps :
            /\ (sweep[s].pc = "loop" /\ sweep'[s].pc = "loop" /\ sweep'[s] # sweep[s]) =>
                  /\ sent' = <<>>
                  /\ \E p \in sweep[s].list : sweep'[s].list = sweep[s].list \ {p}
            /\ (sweep[s].pc = "loop" /\ sweep'[s].pc = "idle") => sweep[s].list = {}]_vars
    /\ \A s \in {"s1"} : (sweep[s].pc = "loop") ~> (sweep[s].pc = "idle")

\* the send to one of two selected identities has failed and the other is
\* being marked as warned
C27_Witness ==
    /\ sweep["s1"].pc = "mark"
    /\ sweep["s1"].list = {}
    /\ \E p \in Ids : Exists(users, p) /\ ~users[p].session_warned /\ p # sweep["s1"].cur
                      /\ users[p].last_active = 0 /\ now = SESSION_TIMEOUT_MINUTES
                      /\ hist.warnings[p] = "none"
    /\ hist.warnings[sweep["s1"].cur] = "one"

HasWon(us, p) == Exists(us, p) /\ us[p].won

\* C28: an identity has a winner row exactly when its session has won: the
\* row comes in the step that sets won and goes in the step that removes the
\* session.
C28_WinnerRowIffWon ==
    [][\A p \in Ids :
          /\ (WinnersOf(winners', p) # {}) <=> HasWon(users', p)
          /\ (WinnersOf(winners, p) = {} /\ WinnersOf(winners', p) # {}) =>
                ~HasWon(users, p) /\ HasWon(users', p)
          /\ (WinnersOf(winners, p) # {} /\ WinnersOf(winners', p) = {}) =>
                Exists(users, p) /\ ~Exists(users', p)]_vars

\* a session that won at minute 1, with its winner row; the other identity
\* has neither session nor row
C28_Witness ==
    /\ ~Exists(users, "u2")
    /\ WinnersOf(winners, "u2") = {}
    /\ HasWon(users, "u1")
    /\ \E w \in WinnersOf(winners, "u1") : w.rank = 1 /\ w.completed_at = 1

\* C29: no two winner rows have the same rank.
C29_RanksAreDistinct ==
    \A w1, w2 \in winners : w1.rank = w2.rank => w1 = w2

\* a step of the handler of an inbound message after which a session that had
\* been inactive for the timeout is active again
BecomesActive(t, p) ==
    /\ turn'[t] # turn[t]
    /\ p \in {turn[t].id, turn'[t].id}
    /\ Exists(users, p) /\ Exists(users', p)
    /\ now - users[p].last_active >= SESSION_TIMEOUT_MINUTES
    /\ now - users'[p].last_active < SESSION_TIMEOUT_MINUTES

\* C30: the inbound message, a text or a click, that makes an expired
\* session active again sets session_started_at to its time.
C30_ResumeRestartsSession ==
    [][\A t \in Turns, p \in Ids :
          BecomesActive(t, p) => users'[p].session_started_at = now]_vars

\* the sweep s takes the step that calls mark_session_warned
Marks(s) == sweep[s].pc = "mark" /\ sweep'[s] # sweep[s]

\* C32: mark_session_warned changes session_warned and nothing else of the
\* session: last_active, session_started_at, level, attempts and won stay.
C32_MarkChangesOnlyTheFlag ==
    [][\A s \in Sweeps : Marks(s) /\ Exists(users, sweep[s].cur) =>
          users' = [users EXCEPT ![sweep[s].cur].session_warned = TRUE]]_vars

\* what a store lets its callers see of the session p
Exposed(rows, p) ==
    IF ~Exists(rows, p) THEN <<"none">>
    ELSE <<rows[p].level, rows[p].attempts, rows[p].won, rows[p].session_warned,
           rows[p].last_active>>

\* C31: after the same calls the two stores show the same level, attempts,
\* won, session_warned and last_active for every identity and select the same
\* identities for the warning.
C31_StoresInterchangeable ==
    /\ \A p \in Ids : Exposed(users, p) = Exposed(redis, p)
    /\ get_inactive_users_for_warning(users, SESSION_WARNING_MINUTES, now)
           = redis_get_inactive_users_for_warning(redis, SESSION_WARNING_MINUTES, now)

\* C33: in the HackMerlin pipeline, when the sales node produced a text that
\* the judge would accept, self_evaluation asks the judge and the turn passes.
C33_AcceptedTextPasses ==
    [][\A t \in Turns :
          /\ self_evaluation_node(t, "yes")
          /\ turn[t].workflow_step = "sales_conversation_complete"
          /\ turn[t].sales_bot_response # NoText
          => /\ turn'[t].llm = turn[t].llm + 1
             /\ turn'[t].won_level]_vars

\* the turn t leaves the writing step of update_state_node
Reports(t) == turn[t].pc = "upd_write" /\ turn'[t].pc = "send"

Introduces(t) ==
    turn[t].pc = "upd_write" /\ sent' = <<Msg(turn[t].id, "level_intro")>>

\* the turn t hands its own response to the WhatsApp client
Delivers(t) == turn[t].pc = "send" /\ turn'[t].pc = "idle"

C36_WarnedMeansSilentSince ==
    \A p \in Ids :
        Exists(users, p) /\ users[p].session_warned => hist.warnings[p] # "none"

\* C37: a text turn classified NEW or EXPIRED calls no model and loads no
\* workflow, and its steps leave the level and won of every stored session as
\* they are; only a turn classified ACTIVE runs the pipeline.
C37_OnlyActiveRunsPipeline ==
    [][\A t \in Turns :
          /\ turn'[t].cls \in {"NEW", "EXPIRED"}
                => turn'[t].llm = 0 /\ turn'[t].wf = "-"
          /\ turn'[t].kind = "text" /\ turn'[t].wf # "-" => turn'[t].cls = "ACTIVE"
          /\ Acts(t) /\ turn[t].cls \in {"NEW", "EXPIRED"}
                => \A p \in Ids :
                      Exists(users, p) /\ Exists(users', p)
                          => /\ users'[p].level = users[p].level
                             /\ users'[p].won = users[p].won]_vars

\* the text that resumed the expired session of an identity at level 2 has
\* been recorded and the session restarted, without a call of a model
C37_Witness ==
    \E t \in Turns :
        /\ turn[t].cls = "EXPIRED"
        /\ turn[t].pc = "exp_asst"
        /\ turn[t].llm = 0
        /\ Exists(users, turn[t].id)
        /\ users[turn[t].id].level = 2
        /\ users[turn[t].id].session_started_at = now
        /\ now >= SESSION_TIMEOUT_MINUTES

\* the place of a state in the order of the collection
RECURSIVE DeliveryRankFrom(_, _)
DeliveryRankFrom(state, i) ==
    IF DeliveryStates[i] = state THEN i ELSE DeliveryRankFrom(state, i + 1)

DeliveryRank(state) == DeliveryRankFrom(state, 1)

\* C38: the delivery row of a lucky-draw winner stays and its state only moves
\* forward along pending, awaiting_name, awaiting_address, completed: no step
\* moves it back, completed is final, and notifying the winner again leaves
\* an existing row as it is.
C38_DeliveryOnlyForward ==
    [][\A p \in Ids : Exists(delivery, p) =>
          /\ Exists(delivery', p)
          /\ DeliveryRank(delivery'[p].state) >= DeliveryRank(delivery[p].state)]_vars

====
